---- MODULE Spec2Model ----
(***************************************************************************)
(* A model of zbuild.py, the ZEngine build front end: the BuildSystem      *)
(* class (tool probing, preset resolution, command construction, clean)    *)
(* and the verb dispatch of main().                                        *)
(*                                                                         *)
(* Strings are TLA+ strings.  An Optional[...] value is a sequence of      *)
(* length 0 (None) or 1 (the value).  An argument vector is a sequence of  *)
(* strings.  The text a probed tool prints is a sequence of lines, a line  *)
(* a sequence of whitespace-separated tokens.                              *)
(***************************************************************************)
EXTENDS Integers, Sequences, FiniteSets, TLC

VARIABLES system, build_dir, history, call, pc, argv, env, preflight,
          warned, reported, exit_code

vars == <<system, build_dir, history, call, pc, argv, env, preflight,
          warned, reported, exit_code>>

-----------------------------------------------------------------------------
(* Bounds of the model *)

MaxCalls == 3
MaxJobs == 4
MaxTokens == 3
MaxExtraArgs == 2
MaxToggle == 2

-----------------------------------------------------------------------------
(* Python values *)

None == <<>>

Some(v) == <<v>>

\* `if x:` for an Optional[str]: None and "" are both false
TruthyStr(opt) == opt # None /\ opt[1] # ""

\* `if x:` for an Optional[int]: None and 0 are both false
TruthyInt(opt) == opt # None /\ opt[1] # 0

\* `if x:` for an Optional[List[str]]: None and [] are both false
TruthyList(opt) == opt # None /\ opt[1] # <<>>

\* the lower-case letter of an upper-case ASCII letter, else the character
LowerChar(c) ==
    CASE c = "A" -> "a" [] c = "B" -> "b" [] c = "C" -> "c" [] c = "D" -> "d" [] c = "E" -> "e"
      [] c = "F" -> "f" [] c = "G" -> "g" [] c = "H" -> "h" [] c = "I" -> "i" [] c = "J" -> "j"
      [] c = "K" -> "k" [] c = "L" -> "l" [] c = "M" -> "m" [] c = "N" -> "n" [] c = "O" -> "o"
      [] c = "P" -> "p" [] c = "Q" -> "q" [] c = "R" -> "r" [] c = "S" -> "s" [] c = "T" -> "t"
      [] c = "U" -> "u" [] c = "V" -> "v" [] c = "W" -> "w" [] c = "X" -> "x" [] c = "Y" -> "y"
      [] c = "Z" -> "z"
      [] OTHER -> c

\* the upper-case letter of a lower-case ASCII letter, else the character
UpperChar(c) ==
    CASE c = "a" -> "A" [] c = "b" -> "B" [] c = "c" -> "C" [] c = "d" -> "D" [] c = "e" -> "E"
      [] c = "f" -> "F" [] c = "g" -> "G" [] c = "h" -> "H" [] c = "i" -> "I" [] c = "j" -> "J"
      [] c = "k" -> "K" [] c = "l" -> "L" [] c = "m" -> "M" [] c = "n" -> "N" [] c = "o" -> "O"
      [] c = "p" -> "P" [] c = "q" -> "Q" [] c = "r" -> "R" [] c = "s" -> "S" [] c = "t" -> "T"
      [] c = "u" -> "U" [] c = "v" -> "V" [] c = "w" -> "W" [] c = "x" -> "X" [] c = "y" -> "Y"
      [] c = "z" -> "Z"
      [] OTHER -> c

RECURSIVE Lower(_)
\* str.lower()
Lower(s) ==
    IF Len(s) = 0 THEN ""
    ELSE LowerChar(SubSeq(s, 1, 1)) \o Lower(SubSeq(s, 2, Len(s)))

RECURSIVE Upper(_)
Upper(s) ==
    IF Len(s) = 0 THEN ""
    ELSE UpperChar(SubSeq(s, 1, 1)) \o Upper(SubSeq(s, 2, Len(s)))

\* str(n) for an int
Str(n) == ToString(n)

-----------------------------------------------------------------------------
(* BuildSystem.__init__ *)

Systems == {"Windows", "Linux", "Darwin", "FreeBSD"}

is_windows(sys) == sys = "Windows"

is_linux(sys) == sys = "Linux"

is_macos(sys) == sys = "Darwin"

\* str(self.build_dir)
BuildDirPath == "build"

-----------------------------------------------------------------------------
(* BuildSystem.get_preset_name: [raised, value] *)

\* get_preset_name with the configuration appended on Windows too
get_preset_name_windows_config(sys, config, generator) ==
    IF is_windows(sys) THEN
        [raised |-> "",
         value |-> (IF generator = Some("ninja") THEN "windows_ninja"
                    ELSE "windows_visual_studio") \o "_" \o config]
    ELSE IF is_linux(sys) THEN
        [raised |-> "",
         value |-> (IF generator = Some("ninja") THEN "linux_ninja"
                    ELSE "linux_make") \o "_" \o config]
    ELSE IF is_macos(sys) THEN
        [raised |-> "",
         value |-> (IF generator = Some("ninja") THEN "macos_ninja"
                    ELSE "macos_xcode") \o "_" \o config]
    ELSE
        [raised |-> "RuntimeError", value |-> ""]

get_preset_name(sys, config, generator) ==
    IF is_windows(sys) THEN
        [raised |-> "",
         value |-> IF generator = Some("ninja") THEN "windows_ninja"
                   ELSE "windows_visual_studio"]
    ELSE IF is_linux(sys) THEN
        [raised |-> "",
         value |-> (IF generator = Some("ninja") THEN "linux_ninja"
                    ELSE "linux_make") \o "_" \o config]
    ELSE IF is_macos(sys) THEN
        [raised |-> "",
         value |-> (IF generator = Some("ninja") THEN "macos_ninja"
                    ELSE "macos_xcode") \o "_" \o config]
    ELSE
        [raised |-> "RuntimeError", value |-> ""]

-----------------------------------------------------------------------------
(* The config_map dictionaries of build and install *)

config_map(key) ==
    CASE key = "debug" -> Some("Debug")
      [] key = "release" -> Some("Release")
      [] key = "relwithdebinfo" -> Some("RelWithDebInfo")
      [] OTHER -> None

\* config_map.get(config, default): the lookup without lower()
ConfigMapGetCaseSensitive(config, default) ==
    LET found == config_map(config)
    IN  IF found # None THEN found[1] ELSE default

\* config_map.get(config.lower(), default)
ConfigMapGet(config, default) ==
    LET found == config_map(Lower(config))
    IN  IF found # None THEN found[1] ELSE default

-----------------------------------------------------------------------------
(* Command construction: the vector each verb hands to subprocess.run *)

\* configure that resolves the preset whether or not one is given
ConfigureCmdAlwaysResolves(sys, config, generator, preset, extra_args) ==
    LET resolved == get_preset_name(sys, config, generator)
        extra == IF TruthyList(extra_args) THEN extra_args[1] ELSE <<>>
    IN  IF resolved.raised # "" THEN
            [raised |-> resolved.raised, resolver |-> TRUE, cmd |-> <<>>]
        ELSE
            [raised |-> "", resolver |-> TRUE,
             cmd |-> <<"cmake", "--preset", resolved.value>> \o extra]

\* configure, lines 145-155: [raised, cmd]
ConfigureCmd(sys, config, generator, preset, extra_args) ==
    LET resolved == get_preset_name(sys, config, generator)
        extra == IF TruthyList(extra_args) THEN extra_args[1] ELSE <<>>
    IN  IF TruthyStr(preset) THEN
            [raised |-> "", resolver |-> FALSE,
             cmd |-> <<"cmake", "--preset", preset[1]>> \o extra]
        ELSE IF resolved.raised # "" THEN
            [raised |-> resolved.raised, resolver |-> TRUE, cmd |-> <<>>]
        ELSE
            [raised |-> "", resolver |-> TRUE,
             cmd |-> <<"cmake", "--preset", resolved.value>> \o extra]

\* build that passes --config on every platform
BuildBaseConfigEverywhere(sys, config, preset) ==
    IF TruthyStr(preset) THEN <<"cmake", "--build", "--preset", preset[1]>>
    ELSE <<"cmake", "--build", BuildDirPath, "--config", ConfigMapGet(config, "Debug")>>

\* build, lines 176-209; cpu is the outcome of multiprocessing.cpu_count():
\* None when it raises
BuildBase(sys, config, preset) ==
    IF TruthyStr(preset) THEN <<"cmake", "--build", "--preset", preset[1]>>
    ELSE <<"cmake", "--build", BuildDirPath>> \o
         (IF is_windows(sys)
          THEN <<"--config", ConfigMapGet(config, "Debug")>>
          ELSE <<>>)

BuildTarget(target) ==
    IF TruthyStr(target) THEN <<"--target", target[1]>> ELSE <<>>

BuildJobs(jobs, cpu) ==
    IF TruthyInt(jobs) THEN <<"-j", Str(jobs[1])>>
    ELSE IF cpu # None THEN <<"-j", Str(cpu[1])>>
    ELSE <<>>

BuildCmd(sys, config, target, jobs, preset, cpu) ==
    BuildBase(sys, config, preset) \o BuildTarget(target) \o BuildJobs(jobs, cpu)

\* install, lines 242-250
InstallCmd(sys, config) ==
    <<"cmake", "--install", BuildDirPath>> \o
    (IF is_windows(sys)
     THEN <<"--config", ConfigMapGet(config, "Release")>>
     ELSE <<>>)

\* test, line 266
TestCmd == <<"ctest", "--test-dir", BuildDirPath, "--output-on-failure">>

\* list_presets, line 282
ListPresetsCmd == <<"cmake", "--list-presets">>

-----------------------------------------------------------------------------
(* Toolchain probing *)

\* what subprocess.run([cmd, arg], timeout=5) can do
ProbeKinds == {"ran", "FileNotFoundError", "TimeoutExpired"}

Words == <<"cmake", "version", "3.28.1", "(stable)">>

Tok(i) == IF i <= Len(Words) THEN Words[i] ELSE "w" \o ToString(i)

\* a line of k whitespace-separated tokens
Line(k) == [i \in 1..k |-> Tok(i)]

RECURSIVE LStrip(_)
LStrip(lines) ==
    IF lines # <<>> /\ Head(lines) = <<>> THEN LStrip(Tail(lines)) ELSE lines

RECURSIVE RStrip(_)
RStrip(lines) ==
    IF lines # <<>> /\ lines[Len(lines)] = <<>>
    THEN RStrip(SubSeq(lines, 1, Len(lines) - 1))
    ELSE lines

\* result.stdout.strip().split('\n')[0]: the first line of the stripped
\* output, the empty line when nothing is left
FirstLine(stdout) ==
    LET stripped == RStrip(LStrip(stdout))
    IN  IF stripped = <<>> THEN <<>> ELSE stripped[1]

\* _check_command: Optional[line]
check_command(outcome) ==
    IF outcome.kind = "ran" /\ outcome.returncode = 0
    THEN Some(FirstLine(outcome.stdout))
    ELSE None

\* `if version:` / `if not version:` for an Optional[str] held as a line
TruthyLine(opt) == opt # None /\ opt[1] # <<>>

\* version.split()[2]: IndexError with fewer than three tokens
SplitIndex2(line) ==
    IF Len(line) >= 3 THEN [raised |-> "", value |-> line[3]]
    ELSE [raised |-> "IndexError", value |-> ""]

\* lines 92-99 of check_requirements
CheckCcache(ccache) ==
    LET v == check_command(ccache)
    IN  IF TruthyLine(v) THEN
            IF SplitIndex2(v[1]).raised # "" THEN SplitIndex2(v[1]).raised
            ELSE "True"
        ELSE "True"

\* lines 77-90 of check_requirements, then the rest
CheckCompiler(sys, clang, ccache) ==
    LET v == check_command(clang)
    IN  IF is_windows(sys) THEN CheckCcache(ccache)
        ELSE IF is_linux(sys) \/ is_macos(sys) THEN
            IF TruthyLine(v) /\ SplitIndex2(v[1]).raised # ""
            THEN SplitIndex2(v[1]).raised
            ELSE CheckCcache(ccache)
        ELSE CheckCcache(ccache)

\* check_requirements: "True", "False", or the exception that escapes it
check_requirements(sys, cmake, clang, ccache) ==
    LET v == check_command(cmake)
    IN  IF ~TruthyLine(v) THEN "False"
        ELSE IF SplitIndex2(v[1]).raised # "" THEN SplitIndex2(v[1]).raised
        ELSE CheckCompiler(sys, clang, ccache)

-----------------------------------------------------------------------------
(* Process Runner and filesystem *)

\* subprocess.run(cmd, cwd=...): exit status zero, non-zero, or the
\* executable is missing
RunOutcomes == {"exit0", "exit1", "FileNotFoundError"}

\* verbs' result from a run outcome (lines 160-165 and alike)
RunResult(run) ==
    IF run = "exit0" THEN "True"
    ELSE IF run = "exit1" THEN "False"
    ELSE run

\* the build directory: absent, present and removable, or present and
\* shutil.rmtree fails on it
BuildDirStates == {"absent", "removable", "locked"}

\* clean without the exists() test: rmtree of an absent directory raises
CleanResultNoExistsTest(dir) ==
    IF dir = "removable" THEN [ret |-> "True", dir |-> "absent"]
    ELSE [ret |-> "False", dir |-> dir]

\* clean, lines 225-236: [ret, dir]
CleanResult(dir) ==
    IF dir # "absent" THEN
        IF dir = "removable" THEN [ret |-> "True", dir |-> "absent"]
        ELSE [ret |-> "False", dir |-> dir]
    ELSE [ret |-> "True", dir |-> dir]

-----------------------------------------------------------------------------
(* Inputs *)

Configurations == {"debug", "release", "relwithdebinfo"}

GeneratorNames == {"ninja", "make", "xcode", "vs"}

Generators == {None} \cup {Some(g) : g \in GeneratorNames}

Min(a, b) == IF a < b THEN a ELSE b

\* w with the letter at position i in upper case
ToggleAt(w, i) ==
    SubSeq(w, 1, i - 1) \o UpperChar(SubSeq(w, i, i)) \o SubSeq(w, i + 1, Len(w))

CaseVariants(w) ==
    {w, Upper(w)} \cup {ToggleAt(w, i) : i \in 1..Min(MaxToggle, Len(w))}

Unrecognised == {"", "minsizerel", "debu", "Release "}

\* configuration strings a caller of build and install may pass
ConfigInputs ==
    UNION {CaseVariants(w) : w \in Configurations}
    \cup {"RelWithDebInfo"} \cup Unrecognised

\* configuration strings passed to configure and get_preset_name
ResolveConfigs == Configurations

PresetInputs == {None, Some(""), Some("ci_release")}

TargetInputs == {None, Some(""), Some("ZEditor")}

JobsInputs == {None} \cup {Some(n) : n \in (-1)..MaxJobs}

\* multiprocessing.cpu_count(): raises, or the number of CPUs
CpuOutcomes == {None, Some(8)}

ExtraTokens == {"-DA=1", "-Wdev"}

ExtraLists == UNION {[1..n -> ExtraTokens] : n \in 0..MaxExtraArgs}

ExtraInputs == {None} \cup {Some(l) : l \in ExtraLists}

Stdouts ==
    {<<>>} \cup {<<Line(k)>> : k \in 0..MaxTokens}
    \cup {<<Line(0), Line(MaxTokens), Line(1)>>, <<Line(2), Line(MaxTokens)>>}

ProbeOutcomes ==
    {[kind |-> k, returncode |-> 1, stdout |-> <<>>] :
        k \in {"FileNotFoundError", "TimeoutExpired", "ran"}}
    \cup {[kind |-> "ran", returncode |-> 0, stdout |-> o] : o \in Stdouts}

-----------------------------------------------------------------------------
(* The effect of one method call: the record kept of it *)

NoCall ==
    [op |-> "none", args |-> <<>>, cmd |-> <<>>, launched |-> FALSE,
     ret |-> "None"]

GetPresetNameCall(sys, config, generator) ==
    LET r == get_preset_name(sys, config, generator)
    IN  [op |-> "get_preset_name",
         args |-> [config |-> config, generator |-> generator],
         cmd |-> <<>>, launched |-> FALSE,
         ret |-> IF r.raised # "" THEN r.raised ELSE "str",
         value |-> r.value]

ConfigureCall(sys, config, generator, preset, extra_args, run) ==
    LET c == ConfigureCmd(sys, config, generator, preset, extra_args)
    IN  [op |-> "configure",
         args |-> [config |-> config, generator |-> generator,
                   preset |-> preset, extra_args |-> extra_args,
                   resolver |-> c.resolver],
         cmd |-> c.cmd, launched |-> c.raised = "",
         ret |-> IF c.raised # "" THEN c.raised ELSE RunResult(run)]

BuildCall(sys, config, target, jobs, preset, cpu, run) ==
    [op |-> "build",
     args |-> [config |-> config, target |-> target, jobs |-> jobs,
               preset |-> preset, cpu |-> cpu],
     cmd |-> BuildCmd(sys, config, target, jobs, preset, cpu),
     launched |-> TRUE, ret |-> RunResult(run)]

CleanCall(dir) ==
    [op |-> "clean", args |-> [dir |-> dir], cmd |-> <<>>,
     launched |-> FALSE, ret |-> CleanResult(dir).ret]

InstallCall(sys, config, run) ==
    [op |-> "install", args |-> [config |-> config],
     cmd |-> InstallCmd(sys, config), launched |-> TRUE,
     ret |-> RunResult(run)]

TestCall(run) ==
    [op |-> "test", args |-> <<>>, cmd |-> TestCmd, launched |-> TRUE,
     ret |-> RunResult(run)]

\* list_presets returns None whatever the exit status
ListPresetsCall(run) ==
    [op |-> "list_presets", args |-> <<>>, cmd |-> ListPresetsCmd,
     launched |-> TRUE,
     ret |-> IF run = "FileNotFoundError" THEN run ELSE "None"]

CheckRequirementsCall(sys, cmake, clang, ccache) ==
    [op |-> "check_requirements",
     args |-> [cmake |-> cmake, clang |-> clang, ccache |-> ccache],
     cmd |-> <<>>, launched |-> FALSE,
     ret |-> check_requirements(sys, cmake, clang, ccache)]

\* print_error is called by a verb that returns False, and by list_presets
\* when the exit status is not zero
PrintsError(c, run) ==
    c.ret = "False" \/ (c.op = "list_presets" /\ run = "exit1")

-----------------------------------------------------------------------------
(* Calls on a BuildSystem object *)

NoArgv == [command |-> "none"]

NoEnv == [run |-> "exit0"]

Init ==
    /\ system \in Systems
    /\ build_dir \in BuildDirStates
    /\ history = <<>>
    /\ call = NoCall
    /\ pc = "api"
    /\ argv = NoArgv
    /\ env = NoEnv
    /\ preflight = "none"
    /\ warned = FALSE
    /\ reported = FALSE
    /\ exit_code = -1

\* the bookkeeping of one call: c is the record of it, run the outcome of
\* the process it launched, dir the build directory it leaves
Invoke(c, run, dir) ==
    /\ history' = Append(history, c.op)
    /\ call' = c
    /\ build_dir' = dir
    /\ reported' = (reported \/ PrintsError(c, run))
    /\ UNCHANGED <<system, argv, env, preflight, warned, exit_code>>

\* the object is fresh: no method was called on it yet
Fresh == pc = "api"

\* one call on a fresh object
Called(c, run, dir) ==
    /\ pc' = "returned"
    /\ Invoke(c, run, dir)

GetPresetName ==
    /\ Fresh
    /\ \E config \in ResolveConfigs, generator \in Generators :
        Called(GetPresetNameCall(system, config, generator), "exit0", build_dir)

Configure ==
    /\ Fresh
    /\ \E config \in ResolveConfigs, generator \in Generators,
          preset \in PresetInputs, extra_args \in ExtraInputs, run \in RunOutcomes :
        Called(ConfigureCall(system, config, generator, preset, extra_args, run),
               run, build_dir)

Build ==
    /\ Fresh
    /\ \E config \in ConfigInputs, target \in TargetInputs, jobs \in JobsInputs,
          preset \in PresetInputs, cpu \in CpuOutcomes, run \in RunOutcomes :
        /\ TruthyInt(jobs) => cpu = None
        /\ Called(BuildCall(system, config, target, jobs, preset, cpu, run),
                  run, build_dir)

Clean ==
    /\ Fresh
    /\ Called(CleanCall(build_dir), "exit0", CleanResult(build_dir).dir)

Install ==
    /\ Fresh
    /\ \E config \in ConfigInputs, run \in RunOutcomes :
        Called(InstallCall(system, config, run), run, build_dir)

Test ==
    /\ Fresh
    /\ \E run \in RunOutcomes : Called(TestCall(run), run, build_dir)

ListPresets ==
    /\ Fresh
    /\ \E run \in RunOutcomes : Called(ListPresetsCall(run), run, build_dir)

CheckRequirements ==
    /\ Fresh
    /\ \E cmake \in ProbeOutcomes, clang \in ProbeOutcomes, ccache \in ProbeOutcomes :
        Called(CheckRequirementsCall(system, cmake, clang, ccache), "exit0", build_dir)

Next ==
    \/ GetPresetName
    \/ Configure
    \/ Build
    \/ Clean
    \/ Install
    \/ Test
    \/ ListPresets
    \/ CheckRequirements

Spec == Init /\ [][Next]_vars

-----------------------------------------------------------------------------
(* A session: successive calls on one object, each verb with the default   *)
(* arguments of its signature                                              *)

SessionInit ==
    /\ system \in Systems
    /\ build_dir \in BuildDirStates
    /\ history = <<>>
    /\ call = NoCall
    /\ pc = "session"
    /\ argv = NoArgv
    /\ env = NoEnv
    /\ preflight = "none"
    /\ warned = FALSE
    /\ reported = FALSE
    /\ exit_code = -1

\* the session may go on: another call fits the bound
InSession == pc = "session" /\ Len(history) < MaxCalls

SessionCalled(c, run, dir) ==
    /\ pc' = pc
    /\ Invoke(c, run, dir)

SessionConfigure ==
    /\ InSession
    /\ \E run \in RunOutcomes :
        SessionCalled(ConfigureCall(system, "debug", None, None, None, run),
                      run, build_dir)

SessionBuild ==
    /\ InSession
    /\ \E cpu \in CpuOutcomes, run \in RunOutcomes :
        SessionCalled(BuildCall(system, "debug", None, None, None, cpu, run),
                      run, build_dir)

SessionClean ==
    /\ InSession
    /\ SessionCalled(CleanCall(build_dir), "exit0", CleanResult(build_dir).dir)

SessionInstall ==
    /\ InSession
    /\ \E run \in RunOutcomes :
        SessionCalled(InstallCall(system, "release", run), run, build_dir)

SessionTest ==
    /\ InSession
    /\ \E run \in RunOutcomes : SessionCalled(TestCall(run), run, build_dir)

SessionNext ==
    \/ SessionConfigure
    \/ SessionBuild
    \/ SessionClean
    \/ SessionInstall
    \/ SessionTest

SessionSpec == SessionInit /\ [][SessionNext]_vars

-----------------------------------------------------------------------------
(* main(): one run of the command line *)

Verbs == {"configure", "build", "clean", "install", "test", "info",
          "list-presets", "check"}

\* the verbs that reach line 383
PreflightVerbs == {"configure", "build", "clean", "install", "test"}

\* the verbs whose own action waits for a child process
LaunchVerbs == {"configure", "build", "install", "test", "list-presets"}

\* the verbs that probe tools, before or as their action
ProbeVerbs == PreflightVerbs \cup {"check", "info"}

\* args after parse_args(): choices and defaults of lines 323-358
Argvs ==
    {[command |-> "configure", config |-> c, generator |-> g, preset |-> p,
      extra_args |-> None] :
        c \in Configurations, g \in {None, Some("ninja")},
        p \in {None, Some("ci_release")}}
    \cup {[command |-> "build", config |-> c, target |-> None, jobs |-> j,
           preset |-> p] :
        c \in Configurations, j \in {None, Some(0), Some(MaxJobs)},
        p \in {None, Some("ci_release")}}
    \cup {[command |-> "install", config |-> c] : c \in Configurations}
    \cup {[command |-> v] :
        v \in {"clean", "test", "info", "list-presets", "check", "none"}}

\* what a probed tool does in a run of main
MainProbeOutcomes ==
    {[kind |-> "FileNotFoundError", returncode |-> 1, stdout |-> <<>>]}
    \cup {[kind |-> "ran", returncode |-> 0, stdout |-> <<Line(k)>>] :
            k \in 0..MaxTokens}

\* Ctrl-C: never, while a tool is probed, or while the verb's child runs
Interrupts == {"never", "probe", "launch"}

Envs ==
    [cmake : MainProbeOutcomes, clang : MainProbeOutcomes,
     ccache : MainProbeOutcomes, run : RunOutcomes, cpu : CpuOutcomes,
     interrupt : Interrupts]

\* the environment of a run is one host: a missing cmake is missing for the
\* probe and for the launch alike, and what a verb never consults is left
\* at one value
EnvFits(a, e) ==
    /\ a.command \in {"configure", "build", "install", "list-presets"}
        => (e.run = "FileNotFoundError" <=> e.cmake.kind = "FileNotFoundError")
    /\ a.command \notin LaunchVerbs => e.run = "exit0"
    /\ e.interrupt = "launch" => a.command \in LaunchVerbs
    /\ e.interrupt = "probe" => a.command \in ProbeVerbs
    /\ a.command \notin ProbeVerbs
        => e.cmake = [kind |-> "ran", returncode |-> 0, stdout |-> <<Line(MaxTokens)>>]
    /\ (a.command \in {"info", "list-presets", "none"} \/ system = "Windows")
        => e.clang = [kind |-> "ran", returncode |-> 0, stdout |-> <<Line(MaxTokens)>>]
    /\ a.command \in {"info", "list-presets", "none"}
        => e.ccache = [kind |-> "ran", returncode |-> 0, stdout |-> <<Line(MaxTokens)>>]
    /\ (a.command # "build" \/ TruthyInt(a.jobs)) => e.cpu = None
    /\ a.command # "clean" => build_dir = "absent"

MainInit ==
    /\ system \in Systems
    /\ build_dir \in BuildDirStates
    /\ history = <<>>
    /\ call = NoCall
    /\ pc = "start"
    /\ argv \in Argvs
    /\ env \in Envs
    /\ EnvFits(argv, env)
    /\ preflight = "none"
    /\ warned = FALSE
    /\ reported = FALSE
    /\ exit_code = -1

\* main returns code: the except clauses of lines 416-423 report what they
\* catch
Exit(code, error) ==
    /\ pc' = "exit"
    /\ exit_code' = code
    /\ reported' = error

\* what a probing call gives in this run: KeyboardInterrupt on Ctrl-C
Probed(result) ==
    IF env.interrupt = "probe" THEN "KeyboardInterrupt" ELSE result

\* what a launching call gives in this run
Launched(c) ==
    IF env.interrupt = "launch" /\ c.launched
    THEN [c EXCEPT !.ret = "KeyboardInterrupt"]
    ELSE c

\* `return 0 if success else 1`, or the except clauses
VerbExit(c) ==
    /\ call' = c
    /\ history' = Append(history, c.op)
    /\ Exit(IF c.ret = "True" THEN 0 ELSE 1, c.ret # "True")

\* lines 362-364
MainNoCommand ==
    /\ pc = "start"
    /\ argv.command = "none"
    /\ Exit(1, FALSE)
    /\ UNCHANGED <<system, build_dir, history, call, argv, env, preflight, warned>>

\* lines 369-372
MainCheck ==
    /\ pc = "start"
    /\ argv.command = "check"
    /\ LET c == CheckRequirementsCall(system, env.cmake, env.clang, env.ccache)
       IN  VerbExit([c EXCEPT !.ret = Probed(c.ret)])
    /\ UNCHANGED <<system, build_dir, argv, env, preflight, warned>>

\* lines 374-376: show_info prints and returns None
MainInfo ==
    /\ pc = "start"
    /\ argv.command = "info"
    /\ call' = [op |-> "show_info", args |-> <<>>, cmd |-> <<>>,
                launched |-> FALSE, ret |-> Probed("None")]
    /\ history' = Append(history, "show_info")
    /\ Exit(IF Probed("None") = "None" THEN 0 ELSE 1, Probed("None") # "None")
    /\ UNCHANGED <<system, build_dir, argv, env, preflight, warned>>

\* lines 378-380: list_presets prints, an error too, and returns None
MainListPresets ==
    /\ pc = "start"
    /\ argv.command = "list-presets"
    /\ LET c == Launched(ListPresetsCall(env.run))
       IN  /\ call' = c
           /\ history' = Append(history, c.op)
           /\ Exit(IF c.ret = "None" THEN 0 ELSE 1,
                   c.ret # "None" \/ PrintsError(c, env.run))
    /\ UNCHANGED <<system, build_dir, argv, env, preflight, warned>>

\* lines 383-384: the pre-flight check and its warning
MainPreflight ==
    /\ pc = "start"
    /\ argv.command \in PreflightVerbs
    /\ LET r == Probed(check_requirements(system, env.cmake, env.clang, env.ccache))
       IN  /\ preflight' = r
           /\ warned' = (r = "False")
           /\ IF r \in {"True", "False"}
              THEN /\ pc' = "verb"
                   /\ UNCHANGED <<exit_code, reported>>
              ELSE Exit(1, TRUE)
    /\ UNCHANGED <<system, build_dir, history, call, argv, env>>

\* lines 386-393
MainConfigure ==
    /\ pc = "verb"
    /\ argv.command = "configure"
    /\ VerbExit(Launched(ConfigureCall(system, argv.config, argv.generator,
                                       argv.preset, argv.extra_args, env.run)))
    /\ UNCHANGED <<system, build_dir, argv, env, preflight, warned>>

\* lines 395-402
MainBuild ==
    /\ pc = "verb"
    /\ argv.command = "build"
    /\ VerbExit(Launched(BuildCall(system, argv.config, argv.target, argv.jobs,
                                   argv.preset, env.cpu, env.run)))
    /\ UNCHANGED <<system, build_dir, argv, env, preflight, warned>>

\* lines 404-406
MainClean ==
    /\ pc = "verb"
    /\ argv.command = "clean"
    /\ VerbExit(CleanCall(build_dir))
    /\ build_dir' = CleanResult(build_dir).dir
    /\ UNCHANGED <<system, argv, env, preflight, warned>>

\* lines 408-410
MainInstall ==
    /\ pc = "verb"
    /\ argv.command = "install"
    /\ VerbExit(Launched(InstallCall(system, argv.config, env.run)))
    /\ UNCHANGED <<system, build_dir, argv, env, preflight, warned>>

\* lines 412-414
MainTest ==
    /\ pc = "verb"
    /\ argv.command = "test"
    /\ VerbExit(Launched(TestCall(env.run)))
    /\ UNCHANGED <<system, build_dir, argv, env, preflight, warned>>

MainNext ==
    \/ MainNoCommand
    \/ MainCheck
    \/ MainInfo
    \/ MainListPresets
    \/ MainPreflight
    \/ MainConfigure
    \/ MainBuild
    \/ MainClean
    \/ MainInstall
    \/ MainTest

MainSpec == MainInit /\ [][MainNext]_vars

-----------------------------------------------------------------------------
(* Properties *)

Contains(seq, x) == \E i \in DOMAIN seq : seq[i] = x

HasPair(seq, a, b) ==
    \E i \in DOMAIN seq : i < Len(seq) /\ seq[i] = a /\ seq[i + 1] = b

Count(seq, x) == Cardinality({i \in DOMAIN seq : seq[i] = x})

EndsWith(seq, tail) ==
    /\ Len(seq) >= Len(tail)
    /\ SubSeq(seq, Len(seq) - Len(tail) + 1, Len(seq)) = tail

\* the platform enumeration of the specification
Platform(sys) ==
    CASE sys = "Windows" -> "Windows"
      [] sys = "Linux" -> "Linux"
      [] sys = "Darwin" -> "macOS"
      [] OTHER -> "Unsupported"

\* the preset table of the specification, entry by entry
ReferencePreset(platform, configuration, generator) ==
    LET ninja == generator = Some("ninja")
    IN  CASE platform = "Windows" /\ ninja -> "windows_ninja"
          [] platform = "Windows" /\ ~ninja -> "windows_visual_studio"
          [] platform = "Linux" /\ ninja /\ configuration = "debug" -> "linux_ninja_debug"
          [] platform = "Linux" /\ ninja /\ configuration = "release" -> "linux_ninja_release"
          [] platform = "Linux" /\ ninja /\ configuration = "relwithdebinfo" -> "linux_ninja_relwithdebinfo"
          [] platform = "Linux" /\ ~ninja /\ configuration = "debug" -> "linux_make_debug"
          [] platform = "Linux" /\ ~ninja /\ configuration = "release" -> "linux_make_release"
          [] platform = "Linux" /\ ~ninja /\ configuration = "relwithdebinfo" -> "linux_make_relwithdebinfo"
          [] platform = "macOS" /\ ninja /\ configuration = "debug" -> "macos_ninja_debug"
          [] platform = "macOS" /\ ninja /\ configuration = "release" -> "macos_ninja_release"
          [] platform = "macOS" /\ ninja /\ configuration = "relwithdebinfo" -> "macos_ninja_relwithdebinfo"
          [] platform = "macOS" /\ ~ninja /\ configuration = "debug" -> "macos_xcode_debug"
          [] platform = "macOS" /\ ~ninja /\ configuration = "release" -> "macos_xcode_release"
          [] platform = "macOS" /\ ~ninja /\ configuration = "relwithdebinfo" -> "macos_xcode_relwithdebinfo"

\* the display name of a configuration, for an input equal to it ignoring
\* letter case; None for any other input
DisplayName(input) ==
    CASE Upper(input) = "DEBUG" -> Some("Debug")
      [] Upper(input) = "RELEASE" -> Some("Release")
      [] Upper(input) = "RELWITHDEBINFO" -> Some("RelWithDebInfo")
      [] OTHER -> None

\* an explicit preset is a preset name, and a preset name is never empty
ExplicitPreset(preset) == preset # None /\ preset # Some("")

\* C1: on every platform, for every configuration and generator,
\* get_preset_name returns exactly the preset of the reference table, and on
\* an unsupported platform it raises and returns no value.
C1_ResolveMatchesTable ==
    call.op = "get_preset_name" =>
        IF Platform(system) = "Unsupported"
        THEN call.ret = "RuntimeError" /\ call.value = ""
        ELSE /\ call.ret = "str"
             /\ call.value = ReferencePreset(Platform(system), call.args.config,
                                             call.args.generator)

C1_Witness ==
    /\ call.op = "get_preset_name"
    /\ system = "Darwin"
    /\ call.args.config = "relwithdebinfo"
    /\ call.args.generator = Some("xcode")
    /\ call.value = "macos_xcode_relwithdebinfo"

\* C2: the vector of build holds no "--config" when an explicit preset is
\* given; without one it holds the pair ["--config", display name] on
\* Windows, for a configuration in any letter case, and no "--config" on
\* Linux and macOS.
C2_BuildConfigFlag ==
    call.op = "build" =>
        /\ ExplicitPreset(call.args.preset) => ~Contains(call.cmd, "--config")
        /\ (~ExplicitPreset(call.args.preset) /\ Platform(system) = "Windows"
            /\ DisplayName(call.args.config) # None)
            => /\ HasPair(call.cmd, "--config", DisplayName(call.args.config)[1])
               /\ Count(call.cmd, "--config") = 1
        /\ (~ExplicitPreset(call.args.preset)
            /\ Platform(system) \in {"Linux", "macOS"})
            => ~Contains(call.cmd, "--config")

C2_Witness ==
    /\ call.op = "build"
    /\ system = "Windows"
    /\ call.args.preset = None
    /\ call.args.config = "RELWITHDEBINFO"
    /\ HasPair(call.cmd, "--config", "RelWithDebInfo")

\* C7: install builds exactly [tool, "--install", buildDir] on Linux and
\* macOS and exactly [tool, "--install", buildDir, "--config", X] on
\* Windows, X the display name of an input equal to a configuration
\* ignoring letter case and Release for every other input.
C7_InstallVector ==
    call.op = "install" =>
        /\ call.launched
        /\ Platform(system) \in {"Linux", "macOS"}
            => call.cmd = <<"cmake", "--install", BuildDirPath>>
        /\ Platform(system) = "Windows"
            => call.cmd = <<"cmake", "--install", BuildDirPath, "--config",
                            IF DisplayName(call.args.config) # None
                            THEN DisplayName(call.args.config)[1]
                            ELSE "Release">>

C7_Witness ==
    /\ call.op = "install"
    /\ system = "Windows"
    /\ call.args.config = "Debug"
    /\ call.cmd = <<"cmake", "--install", "build", "--config", "Debug">>

\* the extraArgs list as given: nothing for an absent list
GivenExtra(extra_args) == IF extra_args = None THEN <<>> ELSE extra_args[1]

\* C8: configure builds exactly [tool, "--preset", P] followed by extraArgs
\* in their order, P never empty; with an explicit preset P is that preset
\* and the resolver is not invoked, so the call cannot fail for the
\* platform; without one P is the resolver's output, and the resolver's
\* failure on an unsupported platform is the call's.
C8_ConfigureVector ==
    call.op = "configure" =>
        /\ call.launched
            => /\ Len(call.cmd) >= 3
               /\ call.cmd[3] # ""
               /\ call.cmd =
                    <<"cmake", "--preset", call.cmd[3]>> \o GivenExtra(call.args.extra_args)
        /\ ExplicitPreset(call.args.preset)
            => /\ call.launched
               /\ call.cmd[3] = call.args.preset[1]
               /\ ~call.args.resolver
               /\ call.ret # "RuntimeError"
        /\ ~ExplicitPreset(call.args.preset)
            => /\ call.args.resolver
               /\ IF Platform(system) = "Unsupported"
                  THEN ~call.launched /\ call.ret = "RuntimeError"
                  ELSE /\ call.launched
                       /\ call.cmd[3] = ReferencePreset(Platform(system),
                                            call.args.config, call.args.generator)

C8_Witness ==
    /\ call.op = "configure"
    /\ system = "FreeBSD"
    /\ call.args.preset = Some("ci_release")
    /\ call.cmd = <<"cmake", "--preset", "ci_release", "-Wdev", "-DA=1">>

\* the three probe outcomes of the specification
ProbeState(outcome) ==
    IF outcome.kind = "ran" /\ outcome.returncode = 0 THEN
        IF Len(FirstLine(outcome.stdout)) >= 3 THEN "found-with-version"
        ELSE "found-no-version-parsed"
    ELSE "not-found"

\* C3: check_requirements returns false exactly when the probe of cmake is
\* not-found, and true whenever cmake is found, whatever the probes of the
\* compiler and of ccache give.
C3_CheckAllFalseIffCmakeMissing ==
    call.op = "check_requirements" =>
        IF ProbeState(call.args.cmake) = "not-found"
        THEN call.ret = "False"
        ELSE call.ret = "True"

\* C9: build ends its vector with exactly one job pair: ["-j", N] for a
\* supplied jobs value N, ["-j", CPU count] when jobs is absent, and no
\* "-j" when jobs is absent and CPU detection fails; the pair comes after
\* the ["--target", target] pair, and the build is launched in every case.
C9_JobPairLast ==
    call.op = "build" =>
        /\ call.launched
        /\ call.args.jobs # None
            => /\ EndsWith(call.cmd, <<"-j", ToString(call.args.jobs[1])>>)
               /\ Count(call.cmd, "-j") = 1
        /\ (call.args.jobs = None /\ call.args.cpu # None)
            => /\ EndsWith(call.cmd, <<"-j", ToString(call.args.cpu[1])>>)
               /\ Count(call.cmd, "-j") = 1
        /\ (call.args.jobs = None /\ call.args.cpu = None)
            => ~Contains(call.cmd, "-j")
        /\ \A i, j \in DOMAIN call.cmd :
            (call.cmd[i] = "--target" /\ call.cmd[j] = "-j") => i + 1 < j
        /\ (Platform(system) = "Linux" /\ call.args.config = "release"
            /\ call.args.jobs = Some(4) /\ call.args.preset = None
            /\ call.args.target = None)
            => call.cmd = <<"cmake", "--build", BuildDirPath, "-j", "4">>

\* C6 as stated: from every state of the filesystem clean returns success
\* and leaves the build directory absent, launching nothing.
C6_CleanAlwaysSucceeds ==
    call.op = "clean" =>
        /\ call.ret = "True"
        /\ build_dir = "absent"
        /\ ~call.launched

\* C6 amended: clean on an absent build directory returns success and
\* leaves the filesystem as it is; on a present one it returns success with
\* the directory gone, or failure when the removal fails; a clean that
\* follows a successful clean returns success and changes nothing; clean
\* never launches a tool.
C6_CleanIdempotent ==
    [][(call'.op = "clean" /\ Len(history') = Len(history) + 1) =>
        /\ build_dir = "absent"
            => call'.ret = "True" /\ build_dir' = build_dir
        /\ call'.ret = "True" => build_dir' = "absent"
        /\ call'.ret # "True"
            => call'.ret = "False" /\ build_dir # "absent" /\ build_dir' = build_dir
        /\ build_dir = "removable" => call'.ret = "True"
        /\ (call.op = "clean" /\ call.ret = "True")
            => call'.ret = "True" /\ build_dir' = build_dir
        /\ ~call'.launched
        /\ call'.cmd = <<>>]_vars

C6_Witness ==
    /\ Len(history) >= 2
    /\ history[Len(history)] = "clean"
    /\ history[Len(history) - 1] = "clean"
    /\ call.args.dir = "absent"
    /\ call.ret = "True"
    /\ build_dir = "absent"

\* the verb's operation failed: its child exited non-zero, the removal of
\* clean failed, a required tool of check is missing, the user interrupted,
\* or an exception was raised
VerbFailed ==
    \/ call.launched /\ env.run = "exit1"
    \/ call.op = "clean" /\ call.ret = "False"
    \/ call.op = "check_requirements" /\ call.ret = "False"
    \/ env.interrupt # "never"
    \/ call.ret \in {"RuntimeError", "IndexError", "FileNotFoundError"}
    \/ preflight \in {"RuntimeError", "IndexError", "FileNotFoundError"}

\* C4: main exits with 1 whenever the verb's operation failed, and with 0
\* only when it succeeded; no run reports a failure and exits with 0.
C4_ExitCodeTellsFailure ==
    (pc = "exit" /\ argv.command \in Verbs) =>
        /\ VerbFailed => exit_code = 1
        /\ reported => exit_code = 1
        /\ exit_code \in {0, 1}

\* the method that carries out a verb
VerbOp(verb) ==
    CASE verb = "check" -> "check_requirements"
      [] verb = "info" -> "show_info"
      [] verb = "list-presets" -> "list_presets"
      [] OTHER -> verb

\* C5: a run of configure, build, clean, install or test that the user
\* does not interrupt completes the pre-flight check and then carries out
\* the verb's action, whatever the check gave; a run of check, info or
\* list-presets has no pre-flight.
C5_PreflightThenVerb ==
    /\ (argv.command \in PreflightVerbs /\ call.op # "none")
        => preflight \in {"True", "False"}
    /\ (pc = "exit" /\ argv.command \in PreflightVerbs /\ env.interrupt = "never")
        => /\ call.op = VerbOp(argv.command)
           /\ history = <<VerbOp(argv.command)>>
    /\ argv.command \in {"check", "info", "list-presets"}
        => preflight = "none" /\ ~warned

\* C10: whatever first line a tool that exits with status zero prints,
\* check_requirements returns a boolean and raises nothing, as the verb
\* check and as the pre-flight check of the other verbs.
C10_VersionParsingNeverRaises ==
    env.interrupt = "never" =>
        /\ (pc = "exit" /\ argv.command = "check") => call.ret \in {"True", "False"}
        /\ (pc # "start" /\ argv.command \in PreflightVerbs)
            => /\ preflight \in {"True", "False"}
               /\ pc = "exit" => call.op = VerbOp(argv.command)

====
